---- MODULE Spec2Model ----
(***************************************************************************)
(* Model of src/main.rs of poc-rust-ipp: a command-line program that       *)
(* queries a printer over IPP (Get-Printer-Attributes), turns the input    *)
(* file into PDF bytes (convert_image_to_pdf for .jpg/.jpeg/.png, a plain  *)
(* file read otherwise), wraps them in a payload                           *)
(* (create_payload_from_pdf), builds a Print-Job request and sends it.     *)
(*                                                                         *)
(* main is one sequential, blocking run; pc is its position.  Every `?` of *)
(* the source is a step that either goes on or ends the run with Err.      *)
(* The environment (command line, files on disk, what the transport and    *)
(* the printer answer) is chosen nondeterministically.                     *)
(***************************************************************************)
EXTENDS Integers, Sequences, FiniteSets, TLC

VARIABLES
    args,        \* the command line: [nargs, uri_ok, filename]
    input_file,  \* the file args[2] names, as found on disk
    tmp_pdf,     \* content of "tmp.pdf" on disk, or NoFile
    use_file,    \* the toggle of main (line 49)
    pc,          \* position of main
    pdf_data,    \* Vec<u8> of line 34, or None
    doc,         \* geometry of the page convert_image_to_pdf built, or None
    payload,     \* IppPayload of line 50, or None
    operation,   \* the built Print-Job request (line 83), or None
    sent,        \* requests put on the transport, in order
    received,    \* what the transport gave back for each, in order
    result       \* what main returned: "running", "Ok", "Err", "Exit1"
                 \* (with the error's kind in error)
    , error

vars == <<args, input_file, tmp_pdf, use_file, pc, pdf_data, doc, payload,
          operation, sent, received, result, error>>

None == [kind |-> "none"]
Some(v) == [kind |-> "some", v |-> v]
NoFile == [kind |-> "nofile"]

-----------------------------------------------------------------------------
(* Bounds of the environment *)

MaxArgs == 3          \* args.len() ranges over 1..MaxArgs
MaxLen == 1           \* longest byte string of a file / PDF
MaxByte == 1          \* bytes are 0..MaxByte
MaxImgK == 2          \* image sides are ImgUnit, 2*ImgUnit, ..
ImgUnit == 1000       \* pixels

Byte == 0..MaxByte
ByteStrings == UNION {[1..n -> Byte] : n \in 0..MaxLen}
ImgSides == {k * ImgUnit : k \in 1..MaxImgK}

-----------------------------------------------------------------------------
(* Program constants.  f32 millimetres are kept exactly, as integers in    *)
(* units of 2^-17 mm: 101.6f32 = 13316915 / 2^17 (101.59999847...),        *)
(* 152.4f32 = 19975372 / 2^17 (152.39999389...).                           *)

Q == 131072
PAGE_WIDTH_MM == 13316915
PAGE_HEIGHT_MM == 19975372
DEFAULT_MEDIA == "w288h432"
PRINT_COLOR_MODE == "color"
PRINT_QUALITY == 4

-----------------------------------------------------------------------------
(* f32 arithmetic on the values above, exact on integers in units of 2^-17 *)

RECURSIVE Pow2(_)
Pow2(n) == IF n <= 0 THEN 1 ELSE 2 * Pow2(n - 1)

RECURSIVE FloorLog2(_)
FloorLog2(n) == IF n <= 1 THEN 0 ELSE 1 + FloorLog2(n \div 2)

\* Nearest f32 (ties to even) of a positive value p >= 64: a value with binary
\* exponent e has a 23-bit fraction, so its grid is 2^(e-23) = 2^(e-6) units.
RoundToF32(p) ==
    LET e == FloorLog2(p \div Q)
        u == Pow2(e - 6)
        q == p \div u
        r == p % u
    IN  IF 2 * r < u THEN q * u
        ELSE IF 2 * r > u THEN (q + 1) * u
        ELSE IF q % 2 = 0 THEN q * u ELSE (q + 1) * u

\* a * k in f32, k a small whole number (100.0)
MulF32(a, k) == RoundToF32(a * k)

\* f32::round (half away from zero, positive values) followed by `as i32`
RoundAsI32(x) == (x + Q \div 2) \div Q

\* `as i32` alone truncates
TruncAsI32(x) == x \div Q

-----------------------------------------------------------------------------
(* The environment's choices *)

ImageExts == {".jpg", ".jpeg", ".png"}

\* args[2], as <<stem, extension>>
Filenames == {<<"photo", ".jpg">>, <<"photo", ".jpeg">>, <<"photo", ".png">>,
              <<"photo", ".JPG">>, <<"doc", ".pdf">>}

\* what is on disk under args[2]
InputFiles ==
    {[kind |-> "missing"]}
    \cup {[kind |-> "image", width |-> w, height |-> h, bytes |-> <<>>] :
             w \in ImgSides, h \in ImgSides}
    \cup {[kind |-> "other", bytes |-> b] : b \in ByteStrings}

TmpFiles == {NoFile} \cup {[kind |-> "file", bytes |-> b] : b \in ByteStrings}

\* IPP status codes a printer may answer with: successful-ok,
\* successful-ok-ignored-or-substituted-attributes, client-error-bad-request,
\* client-error-document-format-not-supported, server-error-internal-error
StatusCodes == {0, 1, 1024, 1034, 1280}

\* what client.send gives back
SendOutcomes ==
    {[kind |-> "transport_error"]}
    \cup {[kind |-> "response", status |-> c] : c \in StatusCodes}

\* what the file system does to create_payload_from_pdf's three calls
IoOutcomes(n) ==
    {[kind |-> "ok"], [kind |-> "create_err"], [kind |-> "open_err"]}
    \cup {[kind |-> "write_err", written |-> k] : k \in 0..n}

\* what doc.save leaves in the buffer
SaveOutcomes ==
    {[ok |-> FALSE]} \cup {[ok |-> TRUE, bytes |-> b] : b \in ByteStrings \ {<<>>}}

Ok(v) == [ok |-> TRUE, value |-> v]
Err(e) == [ok |-> FALSE, error |-> e]

-----------------------------------------------------------------------------
(* The program's functions *)

\* StatusCode::is_success of the ipp crate: success is the 0x00xx range
is_success(c) == c \div 256 = 0

\* args[2].ends_with(".jpg") || .. (main, lines 34-36)
HasImageExt(filename) == filename[Len(filename)] \in ImageExts

\* Width and height of the image's footprint against the page, as
\* width / dpi * 25.4 * scale (mm) > page, cross-multiplied in units of 2^-10 mm
ExceedsSide(pixels, dpi, scale, page_mm) ==
    pixels * 254 * scale * 1024 > (page_mm \div 128) * 10 * dpi

FootprintExceedsPage(d) ==
    \/ ExceedsSide(d.image.width, d.transform.dpi, d.transform.scale_x, d.page_width)
    \/ ExceedsSide(d.image.height, d.transform.dpi, d.transform.scale_y, d.page_height)

FixedFitDoc(file) ==
    [page_width |-> PAGE_WIDTH_MM,
     page_height |-> PAGE_HEIGHT_MM,
     image |-> [width |-> file.width, height |-> file.height],
     transform |-> [translate_x |-> 0, translate_y |-> 0,
                    scale_x |-> 1, scale_y |-> 1, dpi |-> 300]]

\* variant: the overflow is rejected
convert_image_to_pdf_RejectOverflow(file, saved) ==
    IF file.kind = "missing" THEN Err("Io")
    ELSE IF file.kind # "image" THEN Err("Decode")
    ELSE IF FootprintExceedsPage(FixedFitDoc(file)) THEN Err("GeometryOverflow")
    ELSE IF ~saved.ok THEN Err("Save")
    ELSE Ok([bytes |-> saved.bytes, doc |-> FixedFitDoc(file)])

\* variant: the page takes the image's native size, pixels / dpi * 25.4 mm
convert_image_to_pdf_NativePage(file, saved) ==
    IF file.kind = "missing" THEN Err("Io")
    ELSE IF file.kind # "image" THEN Err("Decode")
    ELSE IF ~saved.ok THEN Err("Save")
    ELSE Ok([bytes |-> saved.bytes,
             doc |-> [FixedFitDoc(file) EXCEPT
                        !.page_width = ((file.width * 254 * 128) \div 3000) * 1024,
                        !.page_height = ((file.height * 254 * 128) \div 3000) * 1024]])

convert_image_to_pdf(file, saved) ==
    IF file.kind = "missing" THEN Err("Io")
    ELSE IF file.kind # "image" THEN Err("Decode")
    ELSE IF ~saved.ok THEN Err("Save")
    ELSE Ok([bytes |-> saved.bytes,
             doc |-> [page_width |-> PAGE_WIDTH_MM,
                      page_height |-> PAGE_HEIGHT_MM,
                      image |-> [width |-> file.width, height |-> file.height],
                      transform |-> [translate_x |-> 0, translate_y |-> 0,
                                     scale_x |-> 1, scale_y |-> 1,
                                     dpi |-> 300]]])

\* variant: a failed read is taken as an empty document
read_pdf_file_Swallow(file) ==
    Ok([bytes |-> IF file.kind = "missing" THEN <<>> ELSE file.bytes])

\* the else branch of main, lines 41-45
read_pdf_file(file) ==
    IF file.kind = "missing" THEN Err("Io")
    ELSE Ok([bytes |-> file.bytes])

Prefix(s, k) == [i \in 1..k |-> s[i]]

\* variant: tmp.pdf is opened for appending instead of being truncated
create_payload_from_pdf_NoTruncate(data, usefile, tmp, io) ==
    LET old == IF tmp.kind = "file" THEN tmp.bytes ELSE <<>>
    IN  IF usefile THEN
            IF io.kind = "create_err" THEN [res |-> Err("Io"), tmp |-> tmp]
            ELSE IF io.kind = "write_err"
                THEN [res |-> Err("Io"),
                      tmp |-> [kind |-> "file",
                               bytes |-> old \o Prefix(data, io.written)]]
            ELSE IF io.kind = "open_err"
                THEN [res |-> Err("Io"),
                      tmp |-> [kind |-> "file", bytes |-> old \o data]]
            ELSE [res |-> Ok([kind |-> "file", path |-> "tmp.pdf"]),
                  tmp |-> [kind |-> "file", bytes |-> old \o data]]
        ELSE [res |-> Ok([kind |-> "cursor", data |-> data]), tmp |-> tmp]

\* Result is the payload, or the error, with tmp.pdf as the calls left it.
create_payload_from_pdf(data, usefile, tmp, io) ==
    IF usefile THEN
        IF io.kind = "create_err" THEN [res |-> Err("Io"), tmp |-> tmp]
        ELSE IF io.kind = "write_err"
            THEN [res |-> Err("Io"),
                  tmp |-> [kind |-> "file", bytes |-> Prefix(data, io.written)]]
        ELSE IF io.kind = "open_err"
            THEN [res |-> Err("Io"), tmp |-> [kind |-> "file", bytes |-> data]]
        ELSE [res |-> Ok([kind |-> "file", path |-> "tmp.pdf"]),
              tmp |-> [kind |-> "file", bytes |-> data]]
    ELSE [res |-> Ok([kind |-> "cursor", data |-> data]), tmp |-> tmp]

\* the bytes the transport reads out of a payload
PayloadBytes(p, tmp) == IF p.kind = "file" THEN tmp.bytes ELSE p.data

\* variant: `as i32` without .round()
y_dimension_Truncated == TruncAsI32(MulF32(PAGE_HEIGHT_MM, 100))

x_dimension == RoundAsI32(MulF32(PAGE_WIDTH_MM, 100))
y_dimension == RoundAsI32(MulF32(PAGE_HEIGHT_MM, 100))

media_size_map == [kind |-> "Collection",
                   members |-> <<[name |-> "x-dimension",
                                  value |-> [kind |-> "Integer", v |-> x_dimension]],
                                 [name |-> "y-dimension",
                                  value |-> [kind |-> "Integer", v |-> y_dimension]]>>]

media_col == [kind |-> "Collection",
              members |-> <<[name |-> "media-size", value |-> media_size_map]>>]

\* IppOperationBuilder::print_job(..)...build()
print_job(filename, user, p) ==
    [op |-> "Print-Job",
     user_name |-> user,
     job_title |-> filename,
     attributes |-> <<
        [name |-> "document-format",
         value |-> [kind |-> "MimeMediaType", v |-> "application/pdf"]],
        [name |-> "media", value |-> [kind |-> "Keyword", v |-> DEFAULT_MEDIA]],
        [name |-> "media-col", value |-> media_col],
        [name |-> "print-scaling", value |-> [kind |-> "Keyword", v |-> "auto"]],
        [name |-> "print-color-mode",
         value |-> [kind |-> "Keyword", v |-> PRINT_COLOR_MODE]],
        [name |-> "print-quality", value |-> [kind |-> "Enum", v |-> PRINT_QUALITY]]>>,
     payload |-> p]

\* variant: the response's status is not looked at
get_printer_attributes_NoStatusCheck(outcome) ==
    IF outcome.kind = "transport_error" THEN Err("Transport")
    ELSE Ok(outcome)

\* get_printer_attributes, after client.send returned
get_printer_attributes(outcome) ==
    IF outcome.kind = "transport_error" THEN Err("Transport")
    ELSE IF ~is_success(outcome.status) THEN Err("Status")
    ELSE Ok(outcome)

-----------------------------------------------------------------------------
(* main, step by step *)

Init ==
    /\ args \in [nargs : 1..MaxArgs, uri_ok : BOOLEAN, filename : Filenames]
    /\ input_file \in InputFiles
    /\ tmp_pdf \in TmpFiles
    /\ use_file \in BOOLEAN
    /\ pc = "start"
    /\ pdf_data = None
    /\ doc = None
    /\ payload = None
    /\ operation = None
    /\ sent = <<>>
    /\ received = <<>>
    /\ result = "running"
    /\ error = "none"

\* `?` on an Err: main returns it
Fail(e) ==
    /\ pc' = "done"
    /\ result' = "Err"
    /\ error' = e

Goto(l) ==
    /\ pc' = l
    /\ UNCHANGED <<result, error>>

\* lines 19-23
CheckArgs ==
    /\ pc = "start"
    /\ IF args.nargs < 3
          THEN /\ pc' = "done"
               /\ result' = "Exit1"
               /\ error' = "Usage"
          ELSE Goto("args_ok")
    /\ UNCHANGED <<args, input_file, tmp_pdf, use_file, pdf_data, doc, payload,
                   operation, sent, received>>

\* line 26
ParseUri ==
    /\ pc = "args_ok"
    /\ IF args.uri_ok THEN Goto("Idle") ELSE Fail("InvalidUri")
    /\ UNCHANGED <<args, input_file, tmp_pdf, use_file, pdf_data, doc, payload,
                   operation, sent, received>>

\* line 29, into get_printer_attributes: lines 115-117, the request goes out
SendGetPrinterAttributes ==
    /\ pc = "Idle"
    /\ sent' = Append(sent, [op |-> "Get-Printer-Attributes"])
    /\ Goto("gpa_sent")
    /\ UNCHANGED <<args, input_file, tmp_pdf, use_file, pdf_data, doc, payload,
                   operation, received>>

\* variant: a transport failure sends the request again
ReceiveGetPrinterAttributes_Retry ==
    /\ pc = "gpa_sent"
    /\ \E outcome \in SendOutcomes :
          /\ received' = Append(received, outcome)
          /\ LET r == get_printer_attributes(outcome)
             IN  IF r.ok THEN Goto("AttributesQueried")
                 ELSE IF r.error = "Transport" THEN Goto("Idle")
                 ELSE Fail(r.error)
    /\ UNCHANGED <<args, input_file, tmp_pdf, use_file, pdf_data, doc, payload,
                   operation, sent>>

\* lines 117-125 and 29-31: client.send returns, the status is checked
ReceiveGetPrinterAttributes ==
    /\ pc = "gpa_sent"
    /\ \E outcome \in SendOutcomes :
          /\ received' = Append(received, outcome)
          /\ LET r == get_printer_attributes(outcome)
             IN  IF r.ok THEN Goto("AttributesQueried") ELSE Fail(r.error)
    /\ UNCHANGED <<args, input_file, tmp_pdf, use_file, pdf_data, doc, payload,
                   operation, sent>>

\* lines 34-46
ConvertInput ==
    /\ pc = "AttributesQueried"
    /\ \E saved \in SaveOutcomes :
          LET r == IF HasImageExt(args.filename)
                      THEN convert_image_to_pdf(input_file, saved)
                      ELSE read_pdf_file(input_file)
          IN  IF r.ok
                 THEN /\ pdf_data' = Some(r.value.bytes)
                      /\ doc' = IF HasImageExt(args.filename)
                                   THEN Some(r.value.doc) ELSE None
                      /\ Goto("converted")
                 ELSE /\ Fail(r.error)
                      /\ UNCHANGED <<pdf_data, doc>>
    /\ UNCHANGED <<args, input_file, tmp_pdf, use_file, payload, operation,
                   sent, received>>

\* lines 49-50
CreatePayload ==
    /\ pc = "converted"
    /\ \E io \in IoOutcomes(Len(pdf_data.v)) :
          LET r == create_payload_from_pdf(pdf_data.v, use_file, tmp_pdf, io)
          IN  /\ tmp_pdf' = r.tmp
              /\ IF r.res.ok
                    THEN /\ payload' = Some(r.res.value)
                         /\ Goto("payload_ready")
                    ELSE /\ Fail(r.res.error)
                         /\ UNCHANGED payload
    /\ UNCHANGED <<args, input_file, use_file, pdf_data, doc, operation,
                   sent, received>>

\* lines 52-83; env::var("USER") is set or not
BuildPrintJob ==
    /\ pc = "payload_ready"
    /\ \E user \in {"alice", "noname"} :
          operation' = Some(print_job(args.filename, user, payload.v))
    /\ Goto("JobBuilt")
    /\ UNCHANGED <<args, input_file, tmp_pdf, use_file, pdf_data, doc, payload,
                   sent, received>>

\* lines 84-85: the request and the payload's bytes go out
SendPrintJob ==
    /\ pc = "JobBuilt"
    /\ sent' = Append(sent, [op |-> "Print-Job",
                             request |-> operation.v,
                             body |-> PayloadBytes(operation.v.payload, tmp_pdf)])
    /\ Goto("Sent")
    /\ UNCHANGED <<args, input_file, tmp_pdf, use_file, pdf_data, doc, payload,
                   operation, received>>

\* line 85: client.send returns
ReceivePrintJob ==
    /\ pc = "Sent"
    /\ \E outcome \in SendOutcomes :
          /\ received' = Append(received, outcome)
          /\ IF outcome.kind = "transport_error"
                THEN Fail("Transport")
                ELSE Goto("ResponseReceived")
    /\ UNCHANGED <<args, input_file, tmp_pdf, use_file, pdf_data, doc, payload,
                   operation, sent>>

\* lines 87-95: the response is printed, main returns Ok(())
PrintResponse ==
    /\ pc = "ResponseReceived"
    /\ pc' = "done"
    /\ result' = "Ok"
    /\ UNCHANGED <<args, input_file, tmp_pdf, use_file, pdf_data, doc, payload,
                   operation, sent, received, error>>

Next ==
    \/ CheckArgs
    \/ ParseUri
    \/ SendGetPrinterAttributes
    \/ ReceiveGetPrinterAttributes
    \/ ConvertInput
    \/ CreatePayload
    \/ BuildPrintJob
    \/ SendPrintJob
    \/ ReceivePrintJob
    \/ PrintResponse

Spec == Init /\ [][Next]_vars

-----------------------------------------------------------------------------
(* Vocabulary of the properties *)

Rank(l) ==
    CASE l = "start" -> 0
      [] l = "args_ok" -> 1
      [] l = "Idle" -> 2
      [] l = "gpa_sent" -> 3
      [] l = "AttributesQueried" -> 4
      [] l = "converted" -> 5
      [] l = "payload_ready" -> 6
      [] l = "JobBuilt" -> 7
      [] l = "Sent" -> 8
      [] l = "ResponseReceived" -> 9
      [] l = "done" -> 10

Sends(name) == {i \in 1..Len(sent) : sent[i].op = name}

\* the i-th send ended in a transport failure or a non-success status
SendFailed(i) ==
    /\ i \in 1..Len(received)
    /\ \/ received[i].kind = "transport_error"
       \/ ~is_success(received[i].status)

NonSuccessAnswer(i) ==
    /\ i \in 1..Len(received)
    /\ received[i].kind = "response"
    /\ ~is_success(received[i].status)

Attribute(request, name) ==
    LET i == CHOOSE j \in 1..Len(request.attributes) :
                 request.attributes[j].name = name
    IN  request.attributes[i].value

\* a length of 2^-17 mm units in hundredths of a millimetre, to the nearest
Hundredths(mm) == (mm * 100 + Q \div 2) \div Q

-----------------------------------------------------------------------------
\* C1: whenever a response to any operation (Get-Printer-Attributes or
\* Print-Job) carries a non-success status, the finished run has returned
\* an error for that status; it never finishes with Ok.
C1_NonSuccessStatusIsError ==
    (pc = "done" /\ \E i \in 1..Len(received) : NonSuccessAnswer(i))
        => (result = "Err" /\ error = "Status")

\* C2: no retries.  Each operation is sent at most once, and after a send
\* that ended in a transport failure or a non-success status nothing more
\* is sent.
C2_NoRetries ==
    /\ Cardinality(Sends("Get-Printer-Attributes")) <= 1
    /\ Cardinality(Sends("Print-Job")) <= 1
    /\ \A i \in 1..Len(received) : SendFailed(i) => Len(sent) = i

C2_Witness ==
    /\ pc = "done"
    /\ Len(sent) = 2
    /\ SendFailed(2)
    /\ received[2].kind = "transport_error"

\* C3: the positions of main are passed strictly in order, one at a time and
\* never again; the Print-Job goes out only once document bytes, payload and
\* request exist; a step that fails (URI parse, attribute query, conversion,
\* file read, payload creation, send) ends the run and nothing runs after it.
C3_StepOrder ==
    /\ pc # "done"
    /\ pc' = "done" \/ Rank(pc') = Rank(pc) + 1
    /\ result' = "Err" => pc' = "done"
    /\ Len(sent') > Len(sent) =>
          /\ result = "running"
          /\ Len(sent') = Len(sent) + 1
          /\ Len(received) = Len(sent)
          /\ sent'[Len(sent')].op = "Print-Job" =>
                (pdf_data # None /\ payload # None /\ operation # None
                 /\ pc = "JobBuilt")

C3_Terminal ==
    /\ result # "running" <=> pc = "done"
    /\ pc = "done" => ~ENABLED Next
    /\ ~args.uri_ok => (sent = <<>> /\ pdf_data = None)
    /\ input_file.kind = "missing" =>
          (pdf_data = None /\ payload = None /\ Sends("Print-Job") = {})
    /\ (\E i \in 1..Len(received) : received[i].kind = "transport_error")
          => (pc = "done" /\ result = "Err")
    /\ SendFailed(1) => (pc = "done" /\ result = "Err")
    /\ (result = "Err" /\ error = "Io" /\ pdf_data # None) =>
          (payload = None /\ operation = None /\ Sends("Print-Job") = {})

C3_StrictSequence == []C3_Terminal /\ [][C3_StepOrder]_vars

C3_Witness ==
    /\ pc = "done"
    /\ result = "Ok"
    /\ Len(sent) = 2
    /\ Len(received) = 2

\* C4: the attribute query can be skipped: from Idle the run can go on
\* towards the job without a Get-Printer-Attributes request going out.
C4_QuerySkippable ==
    pc = "Idle" => ENABLED (Next /\ sent' = sent)

\* C5: for the document bytes at hand, create_payload_from_pdf with
\* use_file = true and with use_file = false both give a payload whose
\* bytes are exactly the document's, and the body of the Print-Job that
\* goes out is those bytes, whatever the mode.
C5_PayloadModesAgree ==
    /\ pdf_data # None =>
          LET f == create_payload_from_pdf(pdf_data.v, TRUE, tmp_pdf, [kind |-> "ok"])
              m == create_payload_from_pdf(pdf_data.v, FALSE, tmp_pdf, [kind |-> "ok"])
          IN  /\ f.res.ok /\ m.res.ok
              /\ PayloadBytes(f.res.value, f.tmp) = pdf_data.v
              /\ PayloadBytes(m.res.value, m.tmp) = pdf_data.v
    /\ payload # None => PayloadBytes(payload.v, tmp_pdf) = pdf_data.v
    /\ \A i \in Sends("Print-Job") : sent[i].body = pdf_data.v

C5_Witness ==
    /\ pc = "Sent"
    /\ use_file
    /\ payload.v.kind = "file"
    /\ Len(pdf_data.v) = MaxLen
    /\ sent[2].body = pdf_data.v

C8_FixedFit ==
    doc # None =>
        /\ doc.v.page_width = PAGE_WIDTH_MM
        /\ doc.v.page_height = PAGE_HEIGHT_MM
        /\ Hundredths(doc.v.page_width) = 10160
        /\ Hundredths(doc.v.page_height) = 15240
        /\ doc.v.transform = [translate_x |-> 0, translate_y |-> 0,
                              scale_x |-> 1, scale_y |-> 1, dpi |-> 300]
        /\ doc.v.image = [width |-> input_file.width, height |-> input_file.height]

C8_Witness ==
    /\ doc # None
    /\ doc.v.image.width = MaxImgK * ImgUnit
    /\ doc.v.image.height = ImgUnit

\* C9: the media-col of every Print-Job that is built or sent holds a
\* media-size collection with x-dimension 10160 and y-dimension 15240, the
\* width and height, in hundredths of a millimetre, of the page
\* convert_image_to_pdf makes.
C9_MediaSizeOf(request) ==
    LET col == Attribute(request, "media-col")
        size == col.members[1]
        x == size.value.members[1]
        y == size.value.members[2]
    IN  /\ col.kind = "Collection"
        /\ Len(col.members) = 1
        /\ size.name = "media-size"
        /\ size.value.kind = "Collection"
        /\ x.name = "x-dimension" /\ x.value = [kind |-> "Integer", v |-> 10160]
        /\ y.name = "y-dimension" /\ y.value = [kind |-> "Integer", v |-> 15240]
        /\ doc # None =>
              /\ x.value.v = Hundredths(doc.v.page_width)
              /\ y.value.v = Hundredths(doc.v.page_height)

C9_MediaColMatchesPage ==
    /\ operation # None => C9_MediaSizeOf(operation.v)
    /\ \A i \in Sends("Print-Job") : C9_MediaSizeOf(sent[i].request)

C9_Witness ==
    /\ Sends("Print-Job") # {}
    /\ doc # None

====
